---- MODULE Spec2Model ----
(***************************************************************************)
(* Model of petl/transform/regex.py: the lazy capture, split and search    *)
(* views and the generators itercapture, itersplit and itersearch that a   *)
(* traversal of a view runs.  One action is one resumption of a generator  *)
(* by the consumer's next(): it runs to the next yield, to a raised        *)
(* exception, or to the end of the source.                                 *)
(***************************************************************************)
EXTENDS Integers, Sequences, FiniteSets, TLC

(***************************************************************************)
(* source      the source table: its header and its data rows               *)
(* view        the view's arguments (CaptureView, SplitView, SearchView);   *)
(*             no flags: the patterns of the model take none                *)
(* travs       the traversals (generators) of the view                      *)
(* complement  complement[t]: the `complement` of the SearchView traversal  *)
(*             t runs, FALSE for search(...), TRUE for searchcomplement(...)*)
(* pc          where generator t stands: "init" (not started), "hdr"        *)
(*             (itersearch, after the header), "rows" (after a yield in or  *)
(*             before the row loop), "done" (ended), "error" (raised)       *)
(* it          it[t]: how many elements t's iterator `it` has given out     *)
(* out         out[t]: what traversal t has yielded so far, header first    *)
(* consumed    consumed[t][n]: the value of it[t] at t's n-th yield         *)
(* err         err[t]: the exception traversal t raised, if any             *)
(* local       the generator's locals that outlive a yield                  *)
(***************************************************************************)
VARIABLES source, view, travs, complement, pc, it, out, consumed, err, local

vars == <<source, view, travs, complement, pc, it, out, consumed, err, local>>

(***************************************************************************)
(* Bounds of the explored inputs.                                          *)
(***************************************************************************)
MaxRows == 2
MaxCols == 3

(***************************************************************************)
(* Python values.  A cell is a str (a sequence of one-character strings)   *)
(* or an int; str() is the conversion itersearch applies before matching.  *)
(***************************************************************************)
StrVal(s) == [ty |-> "str", s |-> s, n |-> 0]
IntVal(n) == [ty |-> "int", s |-> <<>>, n |-> n]

DigitChar == <<"0", "1", "2", "3", "4", "5", "6", "7", "8", "9">>

RECURSIVE Digits(_)
Digits(n) == IF n < 10 THEN <<DigitChar[n + 1]>>
             ELSE Digits(n \div 10) \o <<DigitChar[(n % 10) + 1]>>

\* str(v)
str(v) == IF v.ty = "str" THEN v.s ELSE Digits(v.n)

Range(s) == {s[i] : i \in 1..Len(s)}

\* list.index(x): the 0-based position of the first occurrence, -1 when absent
\* (where Python raises ValueError; callers test membership first).
index(lst, x) ==
    IF x \in Range(lst)
    THEN (CHOOSE i \in 1..Len(lst) : lst[i] = x /\ \A j \in 1..(i - 1) : lst[j] # x) - 1
    ELSE -1

\* list.remove(x) for an x that is in the list: the first occurrence goes.
remove(lst, x) ==
    LET i == index(lst, x) IN SubSeq(lst, 1, i) \o SubSeq(lst, i + 2, Len(lst))

\* seq[i] with Python's indexing: 0-based, negative indices count from the end,
\* anything else is an IndexError.
InRange(seq, i) == -Len(seq) <= i /\ i < Len(seq)
getitem(seq, i) == IF i >= 0 THEN seq[i + 1] ELSE seq[Len(seq) + i + 1]

\* [v for i, v in enumerate(row) if i != field_index]
dropindex(row, field_index) ==
    IF 0 <= field_index /\ field_index < Len(row)
    THEN SubSeq(row, 1, field_index) \o SubSeq(row, field_index + 2, Len(row))
    ELSE row

(***************************************************************************)
(* The regular expressions of the model: a pattern is a non-empty sequence *)
(* of atoms, each a literal character or "." (any character), on its own   *)
(* or as a capturing group of one atom: "(a)(.)", "b", "ab".               *)
(***************************************************************************)
Lit(c) == [c |-> c, g |-> FALSE]
Grp(c) == [c |-> c, g |-> TRUE]

AtomMatches(a, ch) == a.c = "." \/ a.c = ch

MatchesAt(p, s, i) ==
    /\ i + Len(p) - 1 <= Len(s)
    /\ \A j \in 1..Len(p) : AtomMatches(p[j], s[i + j - 1])

\* prog.search(s) from position `from` on: the leftmost match's 1-based start,
\* 0 for None.
SearchFrom(p, s, from) ==
    LET hits == {i \in from..Len(s) : MatchesAt(p, s, i)}
    IN  IF hits = {} THEN 0 ELSE CHOOSE i \in hits : \A k \in hits : i <= k

search(p, s) == SearchFrom(p, s, 1)

\* match.groups() of the match of p at position i of s, in group order.
RECURSIVE GroupsFrom(_, _, _, _)
GroupsFrom(p, s, i, j) ==
    IF j > Len(p) THEN <<>>
    ELSE (IF p[j].g THEN <<StrVal(<<s[i + j - 1]>>)>> ELSE <<>>)
         \o GroupsFrom(p, s, i, j + 1)

groups(p, s, i) == GroupsFrom(p, s, i, 1)

\* prog.split(s, maxsplit): the pieces between the non-overlapping matches,
\* each match's groups between them, at most maxsplit splits (0: no limit).
RECURSIVE SplitFrom(_, _, _, _, _)
SplitFrom(p, s, maxsplit, pos, n) ==
    LET i == SearchFrom(p, s, pos)
    IN  IF i = 0 \/ (maxsplit > 0 /\ n >= maxsplit)
        THEN <<StrVal(SubSeq(s, pos, Len(s)))>>
        ELSE <<StrVal(SubSeq(s, pos, i - 1))>> \o groups(p, s, i)
             \o SplitFrom(p, s, maxsplit, i + Len(p), n + 1)

split(p, s, maxsplit) == SplitFrom(p, s, maxsplit, 1, 0)

(***************************************************************************)
(* Field selectors: a name, an int, a list of either, or None.             *)
(***************************************************************************)
ByName(s) == [kind |-> "name", name |-> s, idx |-> 0, items |-> <<>>]
ByIndex(i) == [kind |-> "int", name |-> "", idx |-> i, items |-> <<>>]
ByList(l) == [kind |-> "list", name |-> "", idx |-> 0, items |-> l]
NoField == [kind |-> "none", name |-> "", idx |-> 0, items |-> <<>>]

\* `field in flds` for a header of names: an int or a list equals no name.
infields(field, flds) == field.kind = "name" /\ field.name \in Range(flds)

(***************************************************************************)
(* Exceptions.                                                             *)
(***************************************************************************)
NoErr == [kind |-> "none", args |-> <<>>]
Raise(kind, args) == [kind |-> kind, args |-> args]

NoFill == [given |-> FALSE, vals |-> <<>>]
Fill(vals) == [given |-> TRUE, vals |-> vals]

NoLocal == [field_index |-> 0, field |-> NoField, scope |-> "unset", indices |-> <<>>]

(***************************************************************************)
(* The source table and its iterator.  it[t] counts the elements traversal *)
(* t has taken from its own iterator over the source (the header is the    *)
(* first); rowat is the row a `for row in it` binds next.                  *)
(***************************************************************************)
takeShared(itv, t, n) == [u \in DOMAIN itv |-> n]

\* Traversal t's own iterator (`it`, a local of the generator) has given out
\* n elements.
take(itv, t, n) == [itv EXCEPT ![t] = n]

\* next(it) / one turn of `for row in it`.
advance(itv, t) == take(itv, t, itv[t] + 1)

rowatFromEnd(src, n) == src.rows[Len(src.rows) - n + 1]

\* The data row taken when n elements (the header and n - 1 rows) are consumed.
rowat(src, n) == src.rows[n]

exhausted(src, n) == n > Len(src.rows)

(***************************************************************************)
(* itercapture, lines 101-118: the first next() of a capture traversal.    *)
(***************************************************************************)
CaptureStart(t) ==
    /\ view.kind = "capture"
    /\ pc[t] = "init"
    /\ LET flds == source.hdr
           field == view.field
           byname == infields(field, flds)
           byint == field.kind = "int" /\ field.idx < Len(flds)
           field_index == IF byname THEN index(flds, field.name) ELSE field.idx
           dropped == IF view.include_original THEN flds ELSE remove(flds, field.name)
           out_flds == IF Len(view.newfields) > 0 THEN dropped \o view.newfields
                       ELSE dropped
       IN  /\ it' = advance(it, t)
           /\ IF ~byname /\ ~byint
              THEN /\ pc' = [pc EXCEPT ![t] = "error"]
                   /\ err' = [err EXCEPT ![t] = Raise("Exception", <<"field invalid">>)]
                   /\ UNCHANGED <<out, consumed, local>>
              ELSE IF ~view.include_original /\ ~byname
              THEN \* out_flds.remove(field) with the int itself: not in the list
                   /\ pc' = [pc EXCEPT ![t] = "error"]
                   /\ err' = [err EXCEPT ![t] = Raise("ValueError", <<"x not in list">>)]
                   /\ UNCHANGED <<out, consumed, local>>
              ELSE /\ pc' = [pc EXCEPT ![t] = "rows"]
                   /\ out' = [out EXCEPT ![t] = Append(@, out_flds)]
                   /\ consumed' = [consumed EXCEPT ![t] = Append(@, it'[t])]
                   /\ local' = [local EXCEPT ![t].field_index = field_index,
                                             ![t].field = field]
                   /\ UNCHANGED err
    /\ UNCHANGED <<source, view, travs, complement>>

(***************************************************************************)
(* itercapture, lines 121-135: a later next() of a capture traversal.      *)
(***************************************************************************)
CaptureRow(t) ==
    /\ view.kind = "capture"
    /\ pc[t] = "rows"
    /\ IF exhausted(source, it[t])
       THEN /\ pc' = [pc EXCEPT ![t] = "done"]
            /\ UNCHANGED <<it, out, consumed, err>>
       ELSE LET row == rowat(source, it[t])
                field_index == local[t].field_index
                value == getitem(row, field_index)
                out_row == IF view.include_original THEN row
                           ELSE dropindex(row, field_index)
                match == search(view.pattern, value.s)
            IN  /\ it' = advance(it, t)
                /\ IF ~InRange(row, field_index)
                   THEN /\ pc' = [pc EXCEPT ![t] = "error"]
                        /\ err' = [err EXCEPT ![t] = Raise("IndexError", <<"index out of range">>)]
                        /\ UNCHANGED <<out, consumed>>
                   ELSE IF value.ty # "str"
                   THEN /\ pc' = [pc EXCEPT ![t] = "error"]
                        /\ err' = [err EXCEPT ![t] = Raise("TypeError", <<"expected string">>)]
                        /\ UNCHANGED <<out, consumed>>
                   ELSE IF match = 0 /\ ~view.fill.given
                   THEN /\ pc' = [pc EXCEPT ![t] = "error"]
                        /\ err' = [err EXCEPT ![t] = Raise("TransformError", <<value, view.pattern>>)]
                        /\ UNCHANGED <<out, consumed>>
                   ELSE /\ out' = [out EXCEPT ![t] = Append(@,
                                     IF match = 0 THEN out_row \o view.fill.vals
                                     ELSE out_row \o groups(view.pattern, value.s, match))]
                        /\ consumed' = [consumed EXCEPT ![t] = Append(@, it'[t])]
                        /\ UNCHANGED <<pc, err>>
    /\ UNCHANGED <<source, view, travs, complement, local>>

(***************************************************************************)
(* itersplit, lines 196-214: the first next() of a split traversal.  An    *)
(* int selector is turned into the name at that position before the name   *)
(* is removed from the output header.                                      *)
(***************************************************************************)
SplitStart(t) ==
    /\ view.kind = "split"
    /\ pc[t] = "init"
    /\ LET flds == source.hdr
           byname == infields(view.field, flds)
           byint == view.field.kind = "int" /\ view.field.idx < Len(flds)
           field_index == IF byname THEN index(flds, view.field.name) ELSE view.field.idx
           field == IF byname THEN view.field ELSE ByName(getitem(flds, field_index))
           dropped == IF view.include_original THEN flds ELSE remove(flds, field.name)
           out_flds == IF Len(view.newfields) > 0 THEN dropped \o view.newfields
                       ELSE dropped
       IN  /\ it' = advance(it, t)
           /\ IF ~byname /\ ~byint
              THEN /\ pc' = [pc EXCEPT ![t] = "error"]
                   /\ err' = [err EXCEPT ![t] = Raise("Exception", <<"field invalid">>)]
                   /\ UNCHANGED <<out, consumed, local>>
              ELSE IF ~byname /\ ~InRange(flds, field_index)
              THEN \* flds[field_index] below -len(flds)
                   /\ pc' = [pc EXCEPT ![t] = "error"]
                   /\ err' = [err EXCEPT ![t] = Raise("IndexError", <<"index out of range">>)]
                   /\ UNCHANGED <<out, consumed, local>>
              ELSE /\ pc' = [pc EXCEPT ![t] = "rows"]
                   /\ out' = [out EXCEPT ![t] = Append(@, out_flds)]
                   /\ consumed' = [consumed EXCEPT ![t] = Append(@, it'[t])]
                   /\ local' = [local EXCEPT ![t].field_index = field_index,
                                             ![t].field = field]
                   /\ UNCHANGED err
    /\ UNCHANGED <<source, view, travs, complement>>

(***************************************************************************)
(* itersplit, lines 217-224: a later next() of a split traversal.          *)
(***************************************************************************)
SplitRow(t) ==
    /\ view.kind = "split"
    /\ pc[t] = "rows"
    /\ IF exhausted(source, it[t])
       THEN /\ pc' = [pc EXCEPT ![t] = "done"]
            /\ UNCHANGED <<it, out, consumed, err>>
       ELSE LET row == rowat(source, it[t])
                field_index == local[t].field_index
                value == getitem(row, field_index)
                out_row == IF view.include_original THEN row
                           ELSE dropindex(row, field_index)
            IN  /\ it' = advance(it, t)
                /\ IF value.ty # "str"
                   THEN /\ pc' = [pc EXCEPT ![t] = "error"]
                        /\ err' = [err EXCEPT ![t] = Raise("TypeError", <<"expected string">>)]
                        /\ UNCHANGED <<out, consumed>>
                   ELSE /\ out' = [out EXCEPT ![t] = Append(@,
                                     out_row \o split(view.pattern, value.s, view.maxsplit))]
                        /\ consumed' = [consumed EXCEPT ![t] = Append(@, it'[t])]
                        /\ UNCHANGED <<pc, err>>
    /\ UNCHANGED <<source, view, travs, complement, local>>

(***************************************************************************)
(* asindices(fields, field), of petl.util.base: the selector, or each      *)
(* selector of a list, resolved to a position in the header; the first     *)
(* selector that is neither a field name nor a valid index is reported.    *)
(***************************************************************************)
selectors(spec) == IF spec.kind = "list" THEN spec.items ELSE <<spec>>

resolvable(flds, s) ==
    \/ s.kind = "name" /\ s.name \in Range(flds)
    \/ s.kind = "int" /\ 0 <= s.idx /\ s.idx < Len(flds)

asindices(flds, spec) ==
    LET items == selectors(spec)
        bad == {k \in 1..Len(items) : ~resolvable(flds, items[k])}
    IN  IF bad # {}
        THEN [ok |-> FALSE,
              value |-> items[CHOOSE k \in bad : \A j \in bad : k <= j],
              indices |-> <<>>]
        ELSE [ok |-> TRUE,
              value |-> NoField,
              indices |-> [k \in 1..Len(items) |->
                              IF items[k].kind = "name" THEN index(flds, items[k].name)
                              ELSE items[k].idx]]

(***************************************************************************)
(* itersearch, lines 316-327: the row predicate `test` built from `field`. *)
(* scope "row" is any value of the row, "single" is r[index], "multi" is   *)
(* operator.itemgetter applied to the indices.                             *)
(***************************************************************************)
buildtest(fields, field) ==
    IF field.kind = "none"
    THEN [err |-> NoErr, scope |-> "row", indices |-> <<>>]
    ELSE IF field.kind = "name"
    THEN IF field.name \in Range(fields)
         THEN [err |-> NoErr, scope |-> "single", indices |-> <<index(fields, field.name)>>]
         ELSE [err |-> Raise("ValueError", <<"x not in list">>),
               scope |-> "unset", indices |-> <<>>]
    ELSE LET a == asindices(fields, field)
         IN  IF ~a.ok
             THEN [err |-> Raise("FieldSelectionError", <<a.value>>),
                   scope |-> "unset", indices |-> <<>>]
             ELSE IF Len(a.indices) = 0
             THEN [err |-> Raise("TypeError", <<"itemgetter expected 1 argument">>),
                   scope |-> "unset", indices |-> <<>>]
             ELSE [err |-> NoErr, scope |-> "multi", indices |-> a.indices]

\* The characters of a str as values: what iterating a str yields.
chars(v) == [k \in 1..Len(v.s) |-> StrVal(<<v.s[k]>>)]

\* operator.itemgetter of the indices, applied to r, gives the item itself for one index and a
\* tuple of items for several; the values test(r) then iterates over.
testvalues(tst, r) ==
    IF tst.scope = "row" THEN r
    ELSE IF tst.scope = "single" THEN <<getitem(r, tst.indices[1])>>
    ELSE IF Len(tst.indices) = 1 THEN chars(getitem(r, tst.indices[1]))
    ELSE [k \in 1..Len(tst.indices) |-> getitem(r, tst.indices[k])]

\* Iterating the single item itemgetter returned raises when it is an int.
testraises(tst, r) ==
    /\ tst.scope = "multi"
    /\ Len(tst.indices) = 1
    /\ getitem(r, tst.indices[1]).ty = "int"

\* test(r): any(prog.search(str(v)) for v in ...)
test(tst, r, pattern) ==
    \E k \in 1..Len(testvalues(tst, r)) : search(pattern, str(testvalues(tst, r)[k])) # 0

(***************************************************************************)
(* itersearch, lines 311-314: the first next() of a search traversal       *)
(* yields the header; `field` is not looked at yet.                        *)
(***************************************************************************)
SearchStart(t) ==
    /\ view.kind = "search"
    /\ pc[t] = "init"
    /\ it' = advance(it, t)
    /\ pc' = [pc EXCEPT ![t] = "hdr"]
    /\ out' = [out EXCEPT ![t] = Append(@, source.hdr)]
    /\ consumed' = [consumed EXCEPT ![t] = Append(@, it'[t])]
    /\ UNCHANGED <<source, view, travs, complement, err, local>>

(***************************************************************************)
(* itersearch, lines 316-338: a later next().  The first of them builds    *)
(* `test`; each then takes rows from the source until one passes (or, for  *)
(* the complement, fails) the test, a test raises, or the source ends.     *)
(***************************************************************************)
SearchRow(t) ==
    /\ view.kind = "search"
    /\ pc[t] \in {"hdr", "rows"}
    /\ LET built == buildtest(source.hdr, view.field)
           tst == IF pc[t] = "hdr" THEN [scope |-> built.scope, indices |-> built.indices]
                  ELSE [scope |-> local[t].scope, indices |-> local[t].indices]
           stops == {n \in it[t]..Len(source.rows) :
                        \/ testraises(tst, rowat(source, n))
                        \/ test(tst, rowat(source, n), view.pattern) # complement[t]}
           n == CHOOSE k \in stops : \A j \in stops : k <= j
       IN  IF pc[t] = "hdr" /\ built.err # NoErr
           THEN /\ pc' = [pc EXCEPT ![t] = "error"]
                /\ err' = [err EXCEPT ![t] = built.err]
                /\ UNCHANGED <<it, out, consumed, local>>
           ELSE /\ local' = [local EXCEPT ![t].scope = tst.scope, ![t].indices = tst.indices]
                /\ IF stops = {}
                   THEN /\ it' = take(it, t, Len(source.rows) + 1)
                        /\ pc' = [pc EXCEPT ![t] = "done"]
                        /\ UNCHANGED <<out, consumed, err>>
                   ELSE /\ it' = take(it, t, n + 1)
                        /\ IF testraises(tst, rowat(source, n))
                           THEN /\ pc' = [pc EXCEPT ![t] = "error"]
                                /\ err' = [err EXCEPT ![t] =
                                             Raise("TypeError", <<"'int' object is not iterable">>)]
                                /\ UNCHANGED <<out, consumed>>
                           ELSE /\ pc' = [pc EXCEPT ![t] = "rows"]
                                /\ out' = [out EXCEPT ![t] = Append(@, rowat(source, n))]
                                /\ consumed' = [consumed EXCEPT ![t] = Append(@, it'[t])]
                                /\ UNCHANGED err
    /\ UNCHANGED <<source, view, travs, complement>>

(***************************************************************************)
(* The explored inputs.                                                    *)
(***************************************************************************)
Names == {"x", "y"}

\* Headers of up to MaxCols names, duplicates included, the first being "x".
Headers == UNION {{h \in [1..n -> Names] : h[1] = "x"} : n \in 1..MaxCols}

ColTag == <<"1", "2", "3", "4", "5">>

Texts == {<<"a", "b">>, <<"b", "b">>}

\* A row of str cells: the row's text followed by the column's digit, so that
\* the cells of a row differ from column to column.
TextRow(txt, n) == [c \in 1..n |-> StrVal(txt \o <<ColTag[c]>>)]

TextTables(n) == UNION {[1..m -> {TextRow(txt, n) : txt \in Texts}] : m \in 0..MaxRows}

Cells == {StrVal(<<"a", "b">>), StrVal(<<"b">>), IntVal(12)}

\* A row of str and int cells: one value in the first column, one in the others.
MixedRow(v, w, n) == [c \in 1..n |-> IF c = 1 THEN v ELSE w]

MixedTables(n) ==
    UNION {[1..m -> {MixedRow(v, w, n) : v \in Cells, w \in Cells}] : m \in 0..MaxRows}

\* (a)(.)  and  b
CapturePatterns == {<<Grp("a"), Grp(".")>>, <<Lit("b")>>}

\* ab  and  1
SearchPatterns == {<<Lit("a"), Lit("b")>>, <<Lit("1")>>}

FieldSelectors ==
    {ByName(s) : s \in Names \cup {"z"}}
    \cup {ByIndex(i) : i \in (-1..MaxCols) \cup {-(MaxCols + 1)}}

SearchFields ==
    {NoField, ByName("x"), ByName("y"), ByName("z"), ByIndex(0), ByIndex(MaxCols),
     ByList(<<>>), ByList(<<ByName("x")>>), ByList(<<ByName("x"), ByName("y")>>),
     ByList(<<ByIndex(0), ByName("z")>>)}

NewFields == {<<>>, <<"p", "q">>}

Fills == {NoFill, Fill(<<StrVal(<<"-">>), StrVal(<<"-">>)>>)}

CaptureView(field, pattern, newfields, include_original, fill) ==
    [kind |-> "capture", field |-> field, pattern |-> pattern, newfields |-> newfields,
     include_original |-> include_original, maxsplit |-> 0, fill |-> fill]

SplitView(field, pattern, newfields, include_original, maxsplit) ==
    [kind |-> "split", field |-> field, pattern |-> pattern, newfields |-> newfields,
     include_original |-> include_original, maxsplit |-> maxsplit, fill |-> NoFill]

SearchView(pattern, field) ==
    [kind |-> "search", field |-> field, pattern |-> pattern, newfields |-> <<>>,
     include_original |-> FALSE, maxsplit |-> 0, fill |-> NoFill]

\* The views over the tables with a header of hdrs: capture and split with a
\* selector of fields, search with a field of sfields.  With two traversals of
\* a search, the first is of search(...) unless both are of searchcomplement.
InitViews(hdrs, fields, sfields) ==
    \E hdr \in hdrs :
       \/ /\ \E rows \in TextTables(Len(hdr)) : source = [hdr |-> hdr, rows |-> rows]
          /\ \E field \in fields, pattern \in CapturePatterns, newfields \in NewFields,
                include_original \in BOOLEAN :
                \/ \E fill \in Fills :
                      view = CaptureView(field, pattern, newfields, include_original, fill)
                \/ \E maxsplit \in {0, 1} :
                      view = SplitView(field, pattern, newfields, include_original, maxsplit)
          /\ complement = [t \in travs |-> FALSE]
       \/ /\ \E rows \in MixedTables(Len(hdr)) : source = [hdr |-> hdr, rows |-> rows]
          /\ \E field \in sfields, pattern \in SearchPatterns :
                view = SearchView(pattern, field)
          /\ complement \in {c \in [travs -> BOOLEAN] :
                                \A t \in travs, u \in travs : (t < u /\ c[t]) => c[u]}

\* No traversal has been asked for anything: a view holds its arguments only.
InitTravs ==
    /\ pc = [t \in travs |-> "init"]
    /\ it = [t \in travs |-> 0]
    /\ out = [t \in travs |-> <<>>]
    /\ consumed = [t \in travs |-> <<>>]
    /\ err = [t \in travs |-> NoErr]
    /\ local = [t \in travs |-> NoLocal]

\* One traversal of a view.
Init ==
    /\ travs = {1}
    /\ InitViews(Headers, FieldSelectors, SearchFields)
    /\ InitTravs

\* Two traversals of the views over the two-column tables; in search, each is a
\* traversal of search(...) or of searchcomplement(...) with the same arguments.
InitPair ==
    /\ travs = {1, 2}
    /\ InitViews({h \in Headers : Len(h) = 2},
                 {ByName("x"), ByName("z"), ByIndex(1), ByIndex(-1)},
                 {NoField, ByName("y"), ByName("z"), ByIndex(0),
                  ByList(<<ByName("x")>>), ByList(<<ByName("x"), ByName("y")>>)})
    /\ InitTravs

Next ==
    \/ \E t \in travs : CaptureStart(t)
    \/ \E t \in travs : CaptureRow(t)
    \/ \E t \in travs : SplitStart(t)
    \/ \E t \in travs : SplitRow(t)
    \/ \E t \in travs : SearchStart(t)
    \/ \E t \in travs : SearchRow(t)

Spec == Init /\ [][Next]_vars

SpecPair == InitPair /\ [][Next]_vars

(***************************************************************************)
(* What the claims speak of.                                               *)
(***************************************************************************)
Terminated(t) == pc[t] \in {"done", "error"}

\* A selector the specification calls valid for a header: a name of the
\* header, or an int i with 0 <= i < len(header).
ValidSelector(field, hdr) ==
    \/ field.kind = "name" /\ field.name \in Range(hdr)
    \/ field.kind = "int" /\ 0 <= field.idx /\ field.idx < Len(hdr)

\* An unknown field name or an out-of-range integer.
InvalidSelector(field, hdr) ==
    /\ field.kind \in {"name", "int"}
    /\ ~ValidSelector(field, hdr)

\* The 0-based position a valid selector stands for: the first field of that
\* name, or the int itself.
TargetPosition(field, hdr) ==
    IF field.kind = "name"
    THEN (CHOOSE i \in 1..Len(hdr) : hdr[i] = field.name /\ \A j \in 1..(i - 1) : hdr[j] # field.name) - 1
    ELSE field.idx

\* seq without its element at 0-based position p.
RemoveAt(seq, p) == SubSeq(seq, 1, p) \o SubSeq(seq, p + 2, Len(seq))

Count(seq, x) == Cardinality({i \in 1..Len(seq) : seq[i] = x})

\* The data rows a traversal has yielded (all it has yielded but the header).
DataRows(t) == SubSeq(out[t], 2, Len(out[t]))

\* The header capture and split are to yield for a valid selector.
ExpectedHeader ==
    (IF view.include_original THEN source.hdr
     ELSE RemoveAt(source.hdr, TargetPosition(view.field, source.hdr)))
    \o view.newfields

\* The target value of source row k for a valid selector, and the values of row
\* k that the output row retains.
TargetValue(k) == source.rows[k][TargetPosition(view.field, source.hdr) + 1]

Retained(k) ==
    IF view.include_original THEN source.rows[k]
    ELSE RemoveAt(source.rows[k], TargetPosition(view.field, source.hdr))

\* The values capture (groups or fill) and split (pieces) append for row k.
Appended(k) ==
    LET value == TargetValue(k).s
        m == search(view.pattern, value)
    IN  IF view.kind = "split"
        THEN (IF m = 0 THEN <<TargetValue(k)>> ELSE split(view.pattern, value, view.maxsplit))
        ELSE (IF m = 0 THEN view.fill.vals ELSE groups(view.pattern, value, m))

\* The source rows whose target value the capture pattern does not match.
NonMatching ==
    {k \in 1..Len(source.rows) : search(view.pattern, TargetValue(k).s) = 0}

\* C1: in every stage, a traversal whose field selector is an unknown field
\* name or an out-of-range integer raises a field-selection error carrying the
\* selector, before it yields any data row.
C1_SelectionErrorBeforeRows ==
    \A t \in travs :
       (InvalidSelector(view.field, source.hdr) /\ (pc[t] = "error" \/ Len(out[t]) >= 2))
       => /\ pc[t] = "error"
          /\ Len(out[t]) <= 1
          /\ err[t] = Raise("FieldSelectionError", <<view.field>>)

\* C2: a capture traversal with no fill, whose first source row with a target
\* value the pattern does not match is row k, yields the header and the
\* transformed rows 1..k-1 and then raises the transform error naming that
\* value and the pattern; it never yields row k or a later row.
C2_TransformErrorAtFirstNonMatch ==
    \A t \in travs :
       (/\ view.kind = "capture"
        /\ ~view.fill.given
        /\ ValidSelector(view.field, source.hdr)
        /\ NonMatching # {})
       => LET k == CHOOSE i \in NonMatching : \A j \in NonMatching : i <= j
          IN  /\ Len(out[t]) <= k
              /\ Terminated(t) =>
                    /\ pc[t] = "error"
                    /\ err[t] = Raise("TransformError", <<TargetValue(k), view.pattern>>)
                    /\ Len(out[t]) = k
                    /\ out[t][1] = ExpectedHeader
                    /\ \A i \in 1..(k - 1) : out[t][i + 1] = Retained(i) \o Appended(i)

\* C4: for every valid target selector, by name or by integer position, the
\* header capture yields is the source header, without the target field
\* unless include_original, followed by the new field names in order.
C4_CaptureHeader ==
    \A t \in travs :
       (/\ view.kind = "capture"
        /\ ValidSelector(view.field, source.hdr)
        /\ pc[t] # "init")
       => /\ Len(out[t]) >= 1
          /\ out[t][1] = ExpectedHeader

\* C5: capture and split accept an integer selector exactly when
\* 0 <= index < len(header): an index in that range is not refused as a
\* selector, and any other integer, every negative one included, makes the
\* traversal fail at its start, before anything is yielded, so that it never
\* indexes a row.
C5_IntegerSelectorRange ==
    \A t \in travs :
       (/\ view.kind \in {"capture", "split"}
        /\ view.field.kind = "int"
        /\ pc[t] # "init")
       => IF 0 <= view.field.idx /\ view.field.idx < Len(source.hdr)
          THEN err[t].kind \notin {"FieldSelectionError", "Exception"}
          ELSE pc[t] = "error" /\ out[t] = <<>>

\* The selectors of a search field scope all resolve, and there is one at least.
ValidScope ==
    /\ view.field.kind # "none"
    /\ Len(selectors(view.field)) >= 1
    /\ \A k \in 1..Len(selectors(view.field)) :
          ValidSelector(selectors(view.field)[k], source.hdr)

\* The pattern matches the string form of the value of a selected field of r.
MatchesSelected(r) ==
    \E k \in 1..Len(selectors(view.field)) :
       search(view.pattern,
              str(r[TargetPosition(selectors(view.field)[k], source.hdr) + 1])) # 0

\* C6: in a search with a field scope (one selector by name or by position, a
\* collection of one, a collection of several), a row passes the predicate
\* exactly when the pattern matches the string form of the whole value of one
\* of the selected fields: a completed traversal has yielded exactly the rows
\* that pass (that fail, for the complement), in order.
C6_FieldScopePredicate ==
    \A t \in travs :
       (/\ view.kind = "search"
        /\ ValidScope
        /\ Terminated(t))
       => LET Passes(r) == MatchesSelected(r) # complement[t]
          IN  /\ pc[t] = "done"
              /\ DataRows(t) = SelectSeq(source.rows, Passes)

\* C7: in capture and split without include_original, for every valid
\* selector, the position removed from each yielded data row is the position
\* at which the field name was removed from the yielded header.
C7_RowsAlignedWithHeader ==
    \A t \in travs :
       (/\ view.kind \in {"capture", "split"}
        /\ ~view.include_original
        /\ ValidSelector(view.field, source.hdr)
        /\ Len(out[t]) >= 1)
       => \E p \in 0..(Len(source.hdr) - 1) :
             /\ out[t][1] = RemoveAt(source.hdr, p) \o view.newfields
             /\ \A i \in 2..Len(out[t]) :
                   SubSeq(out[t][i], 1, Len(source.hdr) - 1) = RemoveAt(source.rows[i - 1], p)

\* C10: a split traversal, and a capture traversal with a fill, yields one
\* output row for each source data row: the retained source values followed
\* by the appended values (the pieces, the single original value when nothing
\* matches; the groups, the fill when nothing matches), so that its length is
\* the source row's, less one if the target field is dropped, plus the number
\* of appended values.
C10_OneRowPerSourceRow ==
    \A t \in travs :
       (/\ view.kind = "split" \/ (view.kind = "capture" /\ view.fill.given)
        /\ ValidSelector(view.field, source.hdr)
        /\ Terminated(t))
       => /\ pc[t] = "done"
          /\ Len(out[t]) = Len(source.rows) + 1
          /\ \A k \in 1..Len(source.rows) :
                /\ out[t][k + 1] = Retained(k) \o Appended(k)
                /\ Len(out[t][k + 1]) =
                      Len(source.rows[k]) - (IF view.include_original THEN 0 ELSE 1)
                      + Len(Appended(k))

\* C3: search and searchcomplement with the same table, pattern and field
\* scope yield the same header, and their data rows partition the source data
\* rows: each source row is in exactly one of the two results and neither
\* holds a row that is not in the source.
C3_SearchComplementPartition ==
    (/\ view.kind = "search"
     /\ travs = {1, 2}
     /\ view.field.kind = "none" \/ ValidScope
     /\ ~complement[1] /\ complement[2]
     /\ Terminated(1) /\ Terminated(2))
    => /\ pc[1] = "done" /\ pc[2] = "done"
       /\ out[1][1] = out[2][1]
       /\ Range(DataRows(1)) \cup Range(DataRows(2)) \subseteq Range(source.rows)
       /\ \A r \in Range(source.rows) :
             \/ Count(DataRows(1), r) = Count(source.rows, r) /\ Count(DataRows(2), r) = 0
             \/ Count(DataRows(2), r) = Count(source.rows, r) /\ Count(DataRows(1), r) = 0

\* C8: two traversals of the same capture, split or search view, one after
\* the other or with their requests interleaved, yield the same sequence: at
\* any moment one's output is a prefix of the other's, a traversal that has
\* ended has yielded at least as much as the other, and two that have ended
\* ended the same way, with the same error if any.
C8_TraversalsAgree ==
    (travs = {1, 2} /\ complement[1] = complement[2])
    => LET n == IF Len(out[1]) <= Len(out[2]) THEN Len(out[1]) ELSE Len(out[2])
       IN  /\ SubSeq(out[1], 1, n) = SubSeq(out[2], 1, n)
           /\ \A t \in travs, u \in travs : Terminated(t) => Len(out[u]) <= Len(out[t])
           /\ (Terminated(1) /\ Terminated(2))
              => /\ pc[1] = pc[2]
                 /\ err[1].kind = err[2].kind
                 /\ err[1].args = err[2].args

\* Both traversals of a capture view have ended in the transform error, after
\* the header and a data row.
C8_Witness ==
    /\ travs = {1, 2}
    /\ view.kind = "capture"
    /\ pc[1] = "error" /\ pc[2] = "error"
    /\ err[1].kind = "TransformError"
    /\ Len(out[1]) = 2 /\ Len(out[2]) = 2

\* The output row o holds the values of the source row r, all of them or all
\* but one.
DerivesFrom(o, r) ==
    \/ Len(o) >= Len(r) /\ SubSeq(o, 1, Len(r)) = r
    \/ /\ Len(o) >= Len(r) - 1
       /\ \E p \in 0..(Len(r) - 1) : SubSeq(o, 1, Len(r) - 1) = RemoveAt(r, p)

\* C9: nothing is read from the source before the first request; capture and
\* split have taken the header and exactly n data rows when they yield their
\* n-th output row, which derives from source row n; search yields source rows
\* in source order, each the last row it has taken, and a suspended traversal
\* has taken nothing beyond what it last yielded.
C9_PullBasedInOrder ==
    \A t \in travs :
       /\ pc[t] = "init" => it[t] = 0 /\ out[t] = <<>>
       /\ Len(consumed[t]) = Len(out[t])
       /\ pc[t] \in {"hdr", "rows"} => it[t] = consumed[t][Len(consumed[t])]
       /\ \A n \in 1..Len(out[t]) : n > 1 => consumed[t][n - 1] < consumed[t][n]
       /\ Len(out[t]) >= 1 => consumed[t][1] = 1
       /\ view.kind \in {"capture", "split"}
          => \A n \in 1..(Len(out[t]) - 1) :
                /\ consumed[t][n + 1] = n + 1
                /\ DerivesFrom(out[t][n + 1], source.rows[n])
       /\ view.kind = "search"
          => \A n \in 2..Len(out[t]) : out[t][n] = source.rows[consumed[t][n] - 1]

\* A search traversal has passed over the first source row and yielded the
\* second, which differs from it.
C9_Witness ==
    \E t \in travs :
       /\ view.kind = "search"
       /\ Len(out[t]) = 2
       /\ consumed[t][2] = 3
       /\ source.rows[1] # source.rows[2]

====
